---- MODULE Spec2Model ----
(***************************************************************************)
(* Line-by-line commits to a repository file through the Contents API      *)
(* (script.py).  A text is a sequence of one-character strings; a version  *)
(* token (sha) is a natural number, None is "no token".  Durations are     *)
(* whole milliseconds.                                                     *)
(***************************************************************************)
EXTENDS Integers, Sequences, FiniteSets, TLC

\* ---------------------------------------------------------------- bounds
MaxRaw == 3            \* longest input text, in characters
MaxStart == 2          \* largest --start-index tried
MaxRepo == 3           \* longest --repo tried when the configuration is varied
MaxDelayLen == 4       \* longest --delay tried when the delay is varied
MaxDraws == 1          \* delays drawn from one getter when the delay is varied

\* ------------------------------------------------------ program constants
None == 0              \* Python's None for a sha: put_file sends no "sha"
ShortenN == 60         \* shorten(s, n=60)

\* --------------------------------------------------------- text helpers
NL == "\n"
Whitespace == {" ", NL}
Chars == {"a", " ", NL}

RECURSIVE TextsUpTo(_)
TextsUpTo(n) ==
    IF n = 0 THEN {<<>>}
    ELSE LET shorter == TextsUpTo(n - 1)
         IN  shorter \cup {Append(t, c) : t \in {u \in shorter : Len(u) = n - 1}, c \in Chars}

EndsWithNL(t) == Len(t) > 0 /\ t[Len(t)] = NL

\* str.splitlines(): a terminator ends a line; text after the last terminator
\* is a last line; no empty last line after a trailing terminator.
RECURSIVE SplitFrom(_, _, _)
SplitFrom(t, i, cur) ==
    IF i > Len(t) THEN (IF cur = <<>> THEN <<>> ELSE <<cur>>)
    ELSE IF t[i] = NL THEN <<cur>> \o SplitFrom(t, i + 1, <<>>)
    ELSE SplitFrom(t, i + 1, Append(cur, t[i]))

splitlines(t) == SplitFrom(t, 1, <<>>)

\* str.strip(): leading and trailing whitespace removed.
RECURSIVE lstrip(_)
lstrip(t) == IF t # <<>> /\ Head(t) \in Whitespace THEN lstrip(Tail(t)) ELSE t

RECURSIVE rstrip(_)
rstrip(t) ==
    IF t # <<>> /\ t[Len(t)] \in Whitespace THEN rstrip(SubSeq(t, 1, Len(t) - 1)) ELSE t

strip(t) == rstrip(lstrip(t))

\* s.replace("\n", " ")
replaceNL(t) == [i \in 1..Len(t) |-> IF t[i] = NL THEN " " ELSE t[i]]

\* shorten(s, n=60), "..." is the one-character ellipsis
shorten(s) ==
    LET u == replaceNL(strip(s))
    IN  IF Len(u) <= ShortenN THEN u ELSE Append(SubSeq(u, 1, ShortenN - 1), "...")

\* Python's seq[i:] for any integer i.
SliceFrom(s, i) ==
    LET start == IF i < 0 THEN (IF Len(s) + i < 0 THEN 0 ELSE Len(s) + i)
                 ELSE (IF i > Len(s) THEN Len(s) ELSE i)
    IN  SubSeq(s, start + 1, Len(s))

\* lines = [ln for ln in lines if ln.strip() != ""]
RECURSIVE DropEmpty(_)
DropEmpty(ls) ==
    IF ls = <<>> THEN <<>>
    ELSE IF strip(Head(ls)) # <<>> THEN <<Head(ls)>> \o DropEmpty(Tail(ls))
    ELSE DropEmpty(Tail(ls))

FilterLines(ls, skip) == IF skip THEN DropEmpty(ls) ELSE ls

\* a fault: the slice is taken whatever the sign of the index
DropLeadingAnySign(ls, s) == SliceFrom(ls, s)

\* if args.start_index > 0: lines = lines[args.start_index:]
DropLeading(ls, s) == IF s > 0 THEN SliceFrom(ls, s) ELSE ls

\* lines 140-144
Preprocess(r, skip, s) == DropLeading(FilterLines(splitlines(r), skip), s)

\* ------------------------------------------------------------ durations
Digits == <<"0", "1", "2", "3", "4", "5", "6", "7", "8", "9">>
IsDigit(c) == \E d \in 1..10 : Digits[d] = c
DigitVal(c) == (CHOOSE d \in 1..10 : Digits[d] = c) - 1

RECURSIVE DigitPrefixLen(_)
DigitPrefixLen(t) ==
    IF t # <<>> /\ IsDigit(Head(t)) THEN 1 + DigitPrefixLen(Tail(t)) ELSE 0

RECURSIVE ToInt(_)
ToInt(t) == IF t = <<>> THEN 0 ELSE 10 * ToInt(SubSeq(t, 1, Len(t) - 1)) + DigitVal(t[Len(t)])

RECURSIVE Pow10(_)
Pow10(n) == IF n = 0 THEN 1 ELSE 10 * Pow10(n - 1)

lower(c) == CASE c = "M" -> "m" [] c = "S" -> "s" [] c = "H" -> "h" [] OTHER -> c

\* {"ms": 0.001, "s": 1.0, "m": 60.0, "h": 3600.0}, in milliseconds; 0: no such unit
Factor(u) ==
    LET l == [i \in 1..Len(u) |-> lower(u[i])]
    IN  CASE l = <<>> -> 1000
          [] l = <<"m", "s">> -> 1
          [] l = <<"s">> -> 1000
          [] l = <<"m">> -> 60000
          [] l = <<"h">> -> 3600000
          [] OTHER -> 0

Invalid == -1

\* parse_duration: ^\s*(\d+(?:\.\d+)?)\s*(ms|s|m|h)?\s*$ then value * factor.
\* Invalid stands for the ValueError.
parse_duration(tok) ==
    LET t == strip(tok)
        n == DigitPrefixLen(t)
        afterInt == SubSeq(t, n + 1, Len(t))
        hasFrac == afterInt # <<>> /\ Head(afterInt) = "." /\ DigitPrefixLen(Tail(afterInt)) > 0
        k == IF hasFrac THEN DigitPrefixLen(Tail(afterInt)) ELSE 0
        frac == IF hasFrac THEN SubSeq(afterInt, 2, k + 1) ELSE <<>>
        rest == IF hasFrac THEN SubSeq(afterInt, k + 2, Len(afterInt)) ELSE afterInt
        unit == lstrip(rest)
        f == Factor(unit)
    IN  IF n = 0 \/ f = 0 THEN Invalid
        ELSE ToInt(SubSeq(t, 1, n)) * f + (ToInt(frac) * f) \div Pow10(k)

Max(a, b) == IF a >= b THEN a ELSE b

\* position of the first "-" in spec, 0 if there is none
RECURSIVE FirstDash(_, _)
FirstDash(spec, i) ==
    IF i > Len(spec) THEN 0 ELSE IF spec[i] = "-" THEN i ELSE FirstDash(spec, i + 1)

\* a fault: the two ends of a range are taken in the order given
build_delay_getterUnordered(spec) ==
    LET d == FirstDash(spec, 1)
    IN  IF d > 0
        THEN LET a == parse_duration(SubSeq(spec, 1, d - 1))
                 b == parse_duration(SubSeq(spec, d + 1, Len(spec)))
             IN  IF a = Invalid \/ b = Invalid THEN [ok |-> FALSE, lo |-> 0, hi |-> 0]
                 ELSE [ok |-> TRUE, lo |-> Max(0, a), hi |-> b]
        ELSE LET fixed == parse_duration(spec)
             IN  IF fixed = Invalid THEN [ok |-> FALSE, lo |-> 0, hi |-> 0]
                 ELSE [ok |-> TRUE, lo |-> Max(0, fixed), hi |-> Max(0, fixed)]

\* build_delay_getter: the bounds [lo, hi] the getter draws from (lo = hi for
\* a fixed delay); ok = FALSE stands for the ValueError of parse_duration.
build_delay_getter(spec) ==
    LET d == FirstDash(spec, 1)
    IN  IF d > 0
        THEN LET a == parse_duration(SubSeq(spec, 1, d - 1))
                 b == parse_duration(SubSeq(spec, d + 1, Len(spec)))
                 lo == IF a <= b THEN a ELSE b
                 hi == IF a <= b THEN b ELSE a
             IN  IF a = Invalid \/ b = Invalid THEN [ok |-> FALSE, lo |-> 0, hi |-> 0]
                 ELSE [ok |-> TRUE, lo |-> Max(0, lo), hi |-> hi]
        ELSE LET fixed == parse_duration(spec)
             IN  IF fixed = Invalid THEN [ok |-> FALSE, lo |-> 0, hi |-> 0]
                 ELSE [ok |-> TRUE, lo |-> Max(0, fixed), hi |-> Max(0, fixed)]

\* next_delay(): random.uniform(lo, hi), sampled at its two ends
next_delay(g) == {g.lo, g.hi}

\* lines 197-199: delay_sec = max(0.0, float(next_delay())); time.sleep(delay_sec),
\* after line i, the getter having returned d
Pause(i, d) == [after |-> i, drawn |-> d, sec |-> Max(0, d)]

\* every --delay of at most n characters over DelayChars
DelayChars == {"1", "3", ".", "-", "m", "s"}
RECURSIVE DelaysUpTo(_)
DelaysUpTo(n) ==
    IF n = 0 THEN {<<>>}
    ELSE LET shorter == DelaysUpTo(n - 1)
         IN  shorter \cup {Append(t, c) : t \in {u \in shorter : Len(u) = n - 1},
                                          c \in DelayChars}

\* ------------------------------------------------------- the inputs tried
NoStr == ""                       \* an option not given (None) or given empty
Tokens == {NoStr, "tok"}
Repos == {<<"o", "/", "r">>, <<"o", "r">>}
DelaySpecs == {<<"0">>, <<"2", "-", "1">>, <<"x">>}
StartIndexes == (0 - 1)..MaxStart
Raws == TextsUpTo(MaxRaw)

\* every --repo of at most n characters over "o" and "/"
RECURSIVE ReposUpTo(_)
ReposUpTo(n) ==
    IF n = 0 THEN {<<>>}
    ELSE LET shorter == ReposUpTo(n - 1)
         IN  shorter \cup {Append(t, c) : t \in {u \in shorter : Len(u) = n - 1},
                                          c \in {"o", "/"}}

\* "/" not in args.repo
HasSlash(repo) == \E i \in 1..Len(repo) : repo[i] = "/"

\* what the remote answers to the GET of get_file
FetchShas == {50}
FetchTexts == {<<>>, <<"z">>, <<"z", NL>>, <<"z", NL, NL>>}
FetchResponses ==
    {[code |-> 200, has_content |-> TRUE, encoding |-> "base64", text |-> t, sha |-> h] :
        t \in FetchTexts, h \in FetchShas}
    \cup {[code |-> 200, has_content |-> TRUE, encoding |-> "none", text |-> <<>>, sha |-> None],
          [code |-> 200, has_content |-> FALSE, encoding |-> "base64", text |-> <<>>, sha |-> None],
          [code |-> 404, has_content |-> FALSE, encoding |-> "base64", text |-> <<>>, sha |-> None],
          [code |-> 500, has_content |-> FALSE, encoding |-> "base64", text |-> <<>>, sha |-> None]}

\* a fault: the sha of the file found is dropped
get_fileWithoutSha(r) ==
    IF r.code = 200 /\ r.has_content /\ r.encoding = "base64"
    THEN [raised |-> FALSE, found |-> TRUE, text |-> r.text, sha |-> None]
    ELSE [raised |-> r.code # 404, found |-> FALSE, text |-> <<>>, sha |-> None]

\* get_file: (text, sha), (None, None) for 404, an exception otherwise.
\* The base64 transport encoding of the content is not modelled: text is the
\* decoded content.
get_file(r) ==
    IF r.code = 200 /\ r.has_content
    THEN IF r.encoding # "base64"
         THEN [raised |-> TRUE, found |-> FALSE, text |-> <<>>, sha |-> None]
         ELSE [raised |-> FALSE, found |-> TRUE, text |-> r.text, sha |-> r.sha]
    ELSE IF r.code = 404
    THEN [raised |-> FALSE, found |-> FALSE, text |-> <<>>, sha |-> None]
    ELSE [raised |-> TRUE, found |-> FALSE, text |-> <<>>, sha |-> None]

\* what the remote answers to the PUT of put_file: the status and the shape
\* of the body: "full" {content: {sha}}, "no_sha" {content: {}},
\* "null_sha" {content: {sha: null}}, "no_content" {} or {content: null}
PutCodes == {200, 201, 409}
PutBodies == {"full", "no_sha", "null_sha", "no_content"}

\* the remote creates a commit exactly when it answers 200 or 201
Accepted(code) == code \in {200, 201}

\* a fault: a failed write is not noticed
PutFailedNever(code) == FALSE

\* code not in (200, 201)
PutFailed(code) == code \notin {200, 201}

\* a fault: dry-run is not honoured
DryRunIgnored(a) == FALSE

\* if args.dry_run
DryRun(a) == a.dry_run

\* a fault: the emptiness of the line sequence is not tested
NothingToCommitNever(ls) == FALSE

\* if not lines
NothingToCommit(ls) == ls = <<>>

\* a fault: a pause follows the last line too
NotLastAlways(i, n) == TRUE

\* if idx < total
NotLast(i, n) == i < n

\* new_content = resp.get("content") or {}; file_sha = new_content.get("sha", file_sha)
NewFileSha(body, created, file_sha) ==
    CASE body = "full" -> created
      [] body = "null_sha" -> None
      [] OTHER -> file_sha

\* a fault: the buffer restarts from the line alone
AppendLineFresh(text, line) == line \o <<NL>>

\* a fault: no terminator is added to a buffer that lacks one
EnsureNLNever(text) == text

\* a fault: the trailing terminators are cut down to one
RECURSIVE CutTerminators(_)
CutTerminators(t) == IF EndsWithNL(t) THEN CutTerminators(SubSeq(t, 1, Len(t) - 1)) ELSE t
EnsureNLExactlyOne(text) ==
    IF CutTerminators(text) = <<>> THEN text ELSE Append(CutTerminators(text), NL)

\* lines 169-170: if current_text and not current_text.endswith("\n")
EnsureNL(text) == IF text # <<>> /\ ~EndsWithNL(text) THEN Append(text, NL) ELSE text

\* lines 169-171
AppendLine(text, line) == EnsureNL(text) \o line \o <<NL>>

\* msg = f"{args.commit_prefix} {idx}/{total}: {shorten(line)}"
Message(i, n, line) == [idx |-> i, total |-> n, preview |-> shorten(line)]

\* ---------------------------------------------------------------- state
VARIABLES
    args,          \* the parsed command line
    pc,            \* where main() is
    token,         \* the credential in use
    delay,         \* the delay getter's bounds
    raw, lines,    \* the input text and the line sequence
    current_text,  \* the running buffer
    file_sha,      \* the version token
    total, committed, idx,
    fetched,       \* history: the answers to the GET requests issued
    writes,        \* history: the PUT requests issued
    answers,       \* history: for each PUT answered, whether the remote accepted it
    remote,        \* the commits the remote created in this run
    signalled,     \* "no", or where main() was when the interruption arrived
    sleeps,        \* history: the time.sleep calls
    stdout,        \* history: the dry-run messages printed
    outcome, exit_code,
    previous       \* the outcome class and exit code of an earlier run, if any

vars == <<args, pc, token, delay, raw, lines, current_text, file_sha, total, committed,
          idx, fetched, writes, answers, remote, signalled, sleeps, stdout, outcome, exit_code,
          previous>>

locals == <<token, delay, raw, lines, current_text, file_sha, total, committed, idx>>
history == <<fetched, writes, answers, remote, signalled, sleeps, stdout>>

ArgSets ==
    [repo : Repos, delay : DelaySpecs, skip_empty : BOOLEAN,
     start_index : StartIndexes, dry_run : BOOLEAN]

\* the command lines that vary the configuration more and the rest less
ConfigArgSets ==
    [repo : ReposUpTo(MaxRepo), delay : DelaySpecs, skip_empty : {FALSE},
     start_index : {0}, dry_run : BOOLEAN]

\* the command lines that vary the delay alone
DelayArgSets ==
    [repo : {<<"o", "/", "r">>}, delay : DelaysUpTo(MaxDelayLen), skip_empty : {FALSE},
     start_index : {0}, dry_run : {FALSE}]

NoDelay == [ok |-> FALSE, lo |-> 0, hi |-> 0]
NoRun == [class |-> "none", code |-> 0]

NoArgs == [repo |-> <<>>, delay |-> <<>>, skip_empty |-> FALSE, start_index |-> 0,
           dry_run |-> FALSE]

\* before main() runs
Start ==
    /\ pc = "launch" /\ args = NoArgs
    /\ token = NoStr /\ delay = NoDelay
    /\ raw = <<>> /\ lines = <<>> /\ current_text = <<>> /\ file_sha = None
    /\ total = 0 /\ committed = 0 /\ idx = 0
    /\ fetched = <<>> /\ writes = <<>> /\ answers = <<>> /\ remote = <<>>
    /\ signalled = "no" /\ sleeps = <<>> /\ stdout = <<>>
    /\ outcome = "running" /\ exit_code = 0

Init == Start /\ previous = NoRun

\* lines 98-112: the command line is parsed
ParseArgsFrom(S) ==
    /\ pc = "launch"
    /\ args' \in S
    /\ pc' = "start"
    /\ UNCHANGED <<locals, history, outcome, exit_code, previous>>

ParseArgs == ParseArgsFrom(ArgSets)
ParseArgsConfig == ParseArgsFrom(ConfigArgSets)
ParseArgsDelay == ParseArgsFrom(DelayArgSets)

\* a fault: an interruption leaves with the status of a failure
ExitCodeNoInterruptCode(what) ==
    CASE what \in {"no_token", "bad_repo", "bad_delay"} -> 2
      [] what \in {"fetch_failed", "write_failed", "interrupted"} -> 1
      [] OTHER -> 0

\* the status of each way main() ends: sys.exit(2) at lines 117, 121, 128,
\* sys.exit(0) at 148, sys.exit(1) at 154 and 187, sys.exit(130) at 207,
\* and 0 when main() returns
ExitCode(what) ==
    CASE what = "no_token" -> 2
      [] what = "bad_repo" -> 2
      [] what = "bad_delay" -> 2
      [] what = "nothing" -> 0
      [] what = "fetch_failed" -> 1
      [] what = "write_failed" -> 1
      [] what = "interrupted" -> 130
      [] what \in {"done", "dry_run_finished"} -> 0

Exit(what) == pc' = "exited" /\ outcome' = what /\ exit_code' = ExitCode(what)

\* lines 114-128: the credential, the repository identifier, the delay
Validate ==
    /\ pc = "start"
    /\ \E given \in Tokens, env \in Tokens :
         LET tk == IF given # NoStr THEN given ELSE env   \* args.token or os.getenv(...)
             g == build_delay_getter(args.delay)
         IN  IF tk = NoStr
             THEN Exit("no_token") /\ UNCHANGED <<token, delay>>
             ELSE IF ~HasSlash(args.repo)
             THEN Exit("bad_repo") /\ token' = tk /\ UNCHANGED delay
             ELSE IF ~g.ok
             THEN Exit("bad_delay") /\ token' = tk /\ UNCHANGED delay
             ELSE /\ token' = tk /\ delay' = g /\ pc' = "read"
                  /\ UNCHANGED <<outcome, exit_code>>
    /\ UNCHANGED <<args, raw, lines, current_text, file_sha, total, committed, idx,
                   history, previous>>

\* lines 130-148: read the text, build the line sequence, stop if it is empty
ReadInput ==
    /\ pc = "read"
    /\ \E r \in Raws :
         /\ raw' = r
         /\ lines' = Preprocess(r, args.skip_empty, args.start_index)
    /\ IF NothingToCommit(lines')
       THEN Exit("nothing")
       ELSE pc' = "fetch" /\ UNCHANGED <<outcome, exit_code>>
    /\ UNCHANGED <<args, token, delay, current_text, file_sha, total, committed, idx,
                   history, previous>>

\* lines 150-166: the initial fetch
Fetch ==
    /\ pc = "fetch"
    /\ \E r \in FetchResponses :
         LET got == get_file(r)
         IN  /\ fetched' = Append(fetched, r)
             /\ IF got.raised
                THEN /\ Exit("fetch_failed")
                     /\ UNCHANGED <<current_text, file_sha, total, committed, idx>>
                ELSE /\ current_text' = (IF got.found THEN got.text ELSE <<>>)
                     /\ file_sha' = (IF got.found THEN got.sha ELSE None)
                     /\ total' = Len(lines) /\ committed' = 0 /\ idx' = 0
                     /\ pc' = "loop"
                     /\ UNCHANGED <<outcome, exit_code>>
    /\ UNCHANGED <<args, token, delay, raw, lines, writes, answers, remote, signalled,
                   sleeps, stdout, previous>>

\* lines 168-182: the next line is appended to the buffer; dry-run prints the
\* message, live mode issues the PUT
NextLine ==
    /\ pc = "loop" /\ idx < total
    /\ idx' = idx + 1
    /\ current_text' = AppendLine(current_text, lines[idx + 1])
    /\ IF DryRun(args)
       THEN /\ stdout' = Append(stdout, Message(idx + 1, total, lines[idx + 1]))
            /\ UNCHANGED <<pc, writes>>
       ELSE /\ writes' = Append(writes, [idx |-> idx + 1, text |-> current_text',
                                         sha |-> file_sha,
                                         message |-> Message(idx + 1, total, lines[idx + 1])])
            /\ pc' = "put"
            /\ UNCHANGED stdout
    /\ UNCHANGED <<args, token, delay, raw, lines, file_sha, total, committed,
                   fetched, answers, remote, signalled, sleeps, outcome, exit_code, previous>>

\* the token of the state a successful write creates
Created == fetched[1].sha + Len(remote) + 1

\* lines 183-199: the answer to the PUT
PutResponse ==
    /\ pc = "put"
    /\ \E code \in PutCodes, body \in PutBodies :
         /\ answers' = Append(answers, Accepted(code))
         /\ remote' = IF Accepted(code)
                      THEN Append(remote, [sha |-> Created, text |-> writes[Len(writes)].text])
                      ELSE remote
         /\ IF PutFailed(code)
            THEN /\ Exit("write_failed")
                 /\ UNCHANGED <<file_sha, committed, sleeps>>
            ELSE /\ file_sha' = NewFileSha(body, Created, file_sha)
                 /\ committed' = committed + 1
                 /\ UNCHANGED <<outcome, exit_code>>
                 /\ IF NotLast(idx, total)
                    THEN \E d \in next_delay(delay) :
                           /\ sleeps' = Append(sleeps, Pause(idx, d))
                           /\ pc' = "sleep"
                    ELSE pc' = "loop" /\ UNCHANGED sleeps
    /\ UNCHANGED <<args, token, delay, raw, lines, current_text, total, idx,
                   fetched, writes, signalled, stdout, previous>>

\* time.sleep returns
Wake ==
    /\ pc = "sleep"
    /\ pc' = "loop"
    /\ UNCHANGED <<args, locals, history, outcome, exit_code, previous>>

\* lines 201-204: the loop is over
Finish ==
    /\ pc = "loop" /\ idx = total
    /\ Exit(IF DryRun(args) THEN "dry_run_finished" ELSE "done")
    /\ UNCHANGED <<args, locals, history, previous>>

\* a fault: the interruption is swallowed and the loop goes on
InterruptSwallowed ==
    /\ pc \in {"loop", "put", "sleep"} /\ signalled = "no"
    /\ signalled' = pc
    /\ UNCHANGED <<args, pc, locals, fetched, writes, answers, remote, sleeps, stdout,
                   outcome, exit_code, previous>>

\* lines 205-207: KeyboardInterrupt inside the try block.  A PUT in flight
\* may or may not have been applied by the remote.
Interrupt ==
    /\ pc \in {"loop", "put", "sleep"}
    /\ signalled' = pc
    /\ Exit("interrupted")
    /\ \E applied \in BOOLEAN :
         remote' = IF pc = "put" /\ applied
                   THEN Append(remote, [sha |-> Created, text |-> writes[Len(writes)].text])
                   ELSE remote
    /\ UNCHANGED <<args, locals, fetched, writes, answers, sleeps, stdout, previous>>

\* the outcome classes, by the message main() prints on leaving: a missing
\* credential or a malformed repository, a malformed delay, a failed fetch or
\* write, an interruption, and completion
ClassOf(what) ==
    CASE what \in {"no_token", "bad_repo"} -> "argument"
      [] what = "bad_delay" -> "delay"
      [] what \in {"fetch_failed", "write_failed"} -> "remote"
      [] what = "interrupted" -> "interrupted"
      [] OTHER -> "completed"

\* the program is run again, the way the earlier run ended being kept
Rerun ==
    /\ pc = "exited"
    /\ previous' = [class |-> ClassOf(outcome), code |-> exit_code]
    /\ args' = NoArgs
    /\ pc' = "launch"
    /\ token' = NoStr /\ delay' = NoDelay
    /\ raw' = <<>> /\ lines' = <<>> /\ current_text' = <<>> /\ file_sha' = None
    /\ total' = 0 /\ committed' = 0 /\ idx' = 0
    /\ fetched' = <<>> /\ writes' = <<>> /\ answers' = <<>> /\ remote' = <<>>
    /\ signalled' = "no" /\ sleeps' = <<>> /\ stdout' = <<>>
    /\ outcome' = "running" /\ exit_code' = 0

Next == ParseArgs \/ Validate \/ ReadInput \/ Fetch \/ NextLine \/ PutResponse \/ Wake \/ Finish \/ Interrupt

Spec == Init /\ [][Next]_vars

\* one run, over the wider configurations
NextConfig ==
    ParseArgsConfig \/ Validate \/ ReadInput \/ Fetch \/ NextLine \/ PutResponse \/ Wake
        \/ Finish \/ Interrupt
SpecConfig == Init /\ [][NextConfig]_vars

\* lines 196-199 on their own: the getter that Validate built is called and
\* the pause is made
Draw ==
    /\ pc = "read" /\ Len(sleeps) < MaxDraws
    /\ \E d \in next_delay(delay) : sleeps' = Append(sleeps, Pause(Len(sleeps) + 1, d))
    /\ UNCHANGED <<args, pc, locals, fetched, writes, answers, remote, signalled, stdout,
                   outcome, exit_code, previous>>

\* the delay getter alone, over the delay specifications
NextDelay == ParseArgsDelay \/ Validate \/ Draw
SpecDelay == Init /\ [][NextDelay]_vars

\* two runs, one after the other
NextRuns == Next \/ Rerun
SpecRuns == Init /\ [][NextRuns]_vars

\* ================================================================ claims

\* the first k lines of ls, each followed by one line terminator
RECURSIVE Terminated(_, _)
Terminated(ls, k) == IF k = 0 THEN <<>> ELSE Terminated(ls, k - 1) \o ls[k] \o <<NL>>

Fetched == fetched # <<>>
FetchedAbsent == Fetched /\ fetched[1].code = 404
FetchedFound ==
    Fetched /\ fetched[1].code = 200 /\ fetched[1].has_content /\ fetched[1].encoding = "base64"
AllAccepted == \A j \in 1..Len(answers) : answers[j]

\* the case of C1: live mode, no filter, no offset, the file absent, no line empty
C1_Case ==
    /\ ~args.dry_run /\ ~args.skip_empty /\ args.start_index = 0
    /\ FetchedAbsent
    /\ \A i \in 1..Len(splitlines(raw)) : splitlines(raw)[i] # <<>>

\* C1: in live mode without filter and offset, the file being absent and every
\* write succeeding, the N lines of the input give exactly N writes, the k-th
\* for line k and no other, its content being the first k lines each followed
\* by one terminator.
C1_OneWritePerLine ==
    (C1_Case /\ AllAccepted) =>
        LET L == splitlines(raw)
        IN  /\ Len(writes) <= Len(L)
            /\ \A k \in 1..Len(writes) :
                 writes[k].idx = k /\ writes[k].text = Terminated(L, k)
            /\ (outcome = "done" => Len(writes) = Len(L) /\ Len(remote) = Len(L))

C1_Witness ==
    /\ C1_Case /\ AllAccepted /\ outcome = "done"
    /\ Len(writes) >= 2 /\ writes[1].text # writes[2].text

\* C2: after every successful write (status 200 or 201, whatever its body), the
\* next write carries the token of the state that write created, and no token
\* sent with a successful write is sent again.
C2_TokenNeverStale ==
    \A j \in 2..Len(writes) :
        answers[j - 1] =>
            /\ writes[j].sha = remote[j - 1].sha
            /\ \A i \in 1..(j - 1) : writes[i].sha # None => writes[j].sha # writes[i].sha

\* the first write that the remote does not accept, 0 if there is none
FirstFailed ==
    IF AllAccepted THEN 0 ELSE CHOOSE k \in 1..Len(answers) :
        ~answers[k] /\ \A j \in 1..(k - 1) : answers[j]

\* C3: when the write for line k is the first one to fail, the run is over with
\* k-1 confirmed commits, the failed write is the last request issued, it is
\* for line k, no sleep follows it and the exit code is not zero.
C3_HaltOnFirstFailure ==
    (~args.dry_run /\ ~AllAccepted) =>
        LET k == FirstFailed
        IN  /\ pc = "exited" /\ exit_code # 0
            /\ committed = k - 1 /\ Len(remote) = k - 1
            /\ Len(writes) = k /\ writes[k].idx = k
            /\ \A j \in 1..k : writes[j].idx = j
            /\ Len(sleeps) = k - 1
            /\ \A j \in 1..Len(sleeps) : sleeps[j].after < k

C3_Witness == ~args.dry_run /\ FirstFailed = 2 /\ outcome = "write_failed" /\ total >= 2

\* C4: the first write carries no token exactly when the fetch answered
\* not-found; when it found the file, the first write carries the token the
\* fetch returned.
C4_FirstWriteToken ==
    writes # <<>> =>
        /\ (writes[1].sha = None) <=> FetchedAbsent
        /\ FetchedFound => writes[1].sha = fetched[1].sha /\ fetched[1].sha \in FetchShas

C4_Witness == writes # <<>> /\ FetchedFound /\ writes[1].sha # None /\ answers # <<>>

\* the token the initial fetch left
TokenAfterInit == IF FetchedFound THEN fetched[1].sha ELSE None

\* C5: in dry-run mode no write is issued and nothing is created remotely, the
\* token keeps the value the initial fetch gave it, no delay is drawn and no
\* sleep made, the messages printed are those of the lines in input order, and
\* a run that got through the initial fetch and is not interrupted prints one
\* message per line and ends with exit code 0.
C5_DryRun ==
    args.dry_run =>
        /\ writes = <<>> /\ answers = <<>> /\ remote = <<>> /\ sleeps = <<>>
        /\ pc \notin {"put", "sleep"}
        /\ (Fetched /\ outcome # "fetch_failed") => file_sha = TokenAfterInit
        /\ Len(stdout) <= Len(lines)
        /\ \A k \in 1..Len(stdout) :
             /\ stdout[k].idx = k /\ stdout[k].total = Len(lines)
             /\ stdout[k].preview = strip(lines[k])
        /\ (pc = "exited" /\ Fetched /\ outcome \notin {"fetch_failed", "interrupted"}) =>
             /\ outcome = "dry_run_finished" /\ exit_code = 0
             /\ Len(stdout) = Len(lines)

C5_Witness ==
    /\ args.dry_run /\ outcome = "dry_run_finished" /\ Len(stdout) >= 2
    /\ FetchedFound /\ stdout[1].preview # stdout[2].preview

Failure(class) == class \in {"argument", "delay", "remote", "interrupted"}

\* the way this run ended, once it has, and the way the earlier one did
ThisRun == [class |-> ClassOf(outcome), code |-> exit_code]
EarlierRun == previous

\* C6 as stated: the four failure classes have four pairwise different
\* non-zero exit codes and completion has 0; for two runs, one after the other.
C6_FourDistinctCodes ==
    (pc = "exited" /\ previous # NoRun) =>
        /\ Failure(ThisRun.class) <=> ThisRun.code # 0
        /\ ThisRun.class # EarlierRun.class => ThisRun.code # EarlierRun.code

\* the classes the exit code does tell apart
Merged(class) == IF class \in {"argument", "delay"} THEN "configuration" ELSE class

\* C6 amended: a missing credential, a malformed repository identifier and a
\* malformed delay share exit code 2; that code, the code 1 of a failed fetch
\* or write and the code 130 of an interruption are pairwise different and
\* not zero; completion, "nothing to commit" included, has 0.
C6_ThreeDistinctCodes ==
    (pc = "exited" /\ previous # NoRun) =>
        /\ Failure(ThisRun.class) <=> ThisRun.code # 0
        /\ Merged(ThisRun.class) # Merged(EarlierRun.class) <=> ThisRun.code # EarlierRun.code
        /\ Merged(ThisRun.class) = "configuration" => ThisRun.code = 2
        /\ ThisRun.class = "remote" => ThisRun.code = 1
        /\ ThisRun.class = "interrupted" => ThisRun.code = 130

C6_Witness ==
    /\ pc = "exited" /\ EarlierRun.class = "argument" /\ ThisRun.class = "delay"
    /\ ThisRun.code = EarlierRun.code

\* C7 as stated: the initial fetch comes before the test for an empty line
\* sequence, so "nothing to commit" is reached only after a fetch.
C7_FetchBeforeEmptyTest == outcome = "nothing" => Fetched

\* C7 amended: the line sequence is built and tested before the fetch; "nothing
\* to commit" ends the run with exit code 0 and no fetch issued; a fetch is
\* issued only for a non-empty sequence, and its failure other than not-found
\* ends the run with the fetch-failure outcome, before any write.
C7_EmptyTestBeforeFetch ==
    /\ outcome = "nothing" => ~Fetched /\ lines = <<>> /\ exit_code = 0 /\ writes = <<>>
    /\ Fetched => lines # <<>> /\ Len(fetched) = 1
    /\ pc = "fetch" => lines # <<>> /\ ~Fetched
    /\ (Fetched /\ ~FetchedFound /\ ~FetchedAbsent) =>
         outcome = "fetch_failed" /\ exit_code = 1 /\ writes = <<>> /\ stdout = <<>>

C7_Witness == outcome = "nothing" /\ raw # <<>> /\ ~Fetched /\ pc = "exited"

\* the lines of the input
InputLines == splitlines(raw)

\* the indexes of the lines of L that are kept: all, or those with a
\* character that is not whitespace
Kept(L) ==
    {i \in 1..Len(L) : args.skip_empty => \E j \in 1..Len(L[i]) : L[i][j] \notin Whitespace}

\* the indexes in K whose 0-based position in K is at least s
From(K, s) == {i \in K : Cardinality({j \in K : j < i}) >= s}

\* the k-th smallest member of S
Nth(S, k) == CHOOSE i \in S : Cardinality({j \in S : j < i}) = k - 1

\* C8: for every start-index s, negative ones included, with or without the
\* filter, the line sequence is the kept lines at position >= s in their
\* order; the k-th write (the k-th message in dry-run) appends the k-th of
\* them, and a run that ends normally has written (printed) all of them.
C8_StartIndex ==
    pc \notin {"launch", "start", "read"} =>
        LET L == InputLines
            S == From(Kept(L), args.start_index)
        IN  /\ Len(lines) = Cardinality(S)
            /\ \A k \in 1..Len(lines) : lines[k] = L[Nth(S, k)]
            /\ Len(writes) <= Len(lines) /\ Len(stdout) <= Len(lines)
            /\ \A k \in 1..Len(writes) :
                 LET t == writes[k].text
                     n == Len(lines[k]) + 1
                 IN  /\ writes[k].idx = k
                     /\ Len(t) >= n /\ SubSeq(t, Len(t) - n + 1, Len(t)) = lines[k] \o <<NL>>
            /\ \A k \in 1..Len(stdout) : stdout[k].preview = strip(lines[k])
            /\ outcome = "done" => Len(writes) = Len(lines)
            /\ outcome = "dry_run_finished" => Len(stdout) = Len(lines)

C8_Witness ==
    /\ outcome = "done" /\ args.start_index = 1 /\ Len(InputLines) = 2
    /\ Len(writes) = 1 /\ InputLines[1] # InputLines[2]

\* C9: once the interruption has arrived, in the write step or the sleep step
\* (or between them), the run is over with exit code 130, which is neither the
\* code of success nor that of a remote failure; nothing can follow, so no
\* write is issued after it; the confirmed writes are in the remote as they
\* were sent, each once.
C9_InterruptHalts ==
    signalled # "no" =>
        /\ pc = "exited" /\ outcome = "interrupted" /\ exit_code = 130
        /\ exit_code \notin {ExitCode("done"), ExitCode("write_failed"), ExitCode("fetch_failed")}
        /\ ~ENABLED Next
        /\ Len(answers) = committed /\ Len(remote) >= committed
        /\ Len(writes) \in {committed, committed + 1}
        /\ signalled # "put" => Len(writes) = committed /\ Len(remote) = committed
        /\ \A k \in 1..committed : remote[k].text = writes[k].text /\ writes[k].idx = k

C9_Witness ==
    /\ signalled = "put" /\ committed >= 1 /\ Len(writes) = committed + 1
    /\ Len(remote) = committed

\* C10: in a live run the j-th sleep follows the j-th successful write and
\* comes before the buffer changes for line j+1, its duration is not negative,
\* no sleep follows the write of the last line, and a fully successful run has
\* made total-1 sleeps.
C10_OneSleepBetweenWrites ==
    (~args.dry_run /\ Fetched /\ outcome # "fetch_failed") =>
        /\ \A j \in 1..Len(sleeps) :
             /\ sleeps[j].after = j /\ sleeps[j].sec >= 0
             /\ j <= committed /\ answers[j] /\ j < total
        /\ idx >= 1 => Len(sleeps) \in {idx - 1, idx}
        /\ Len(writes) = idx
        /\ pc = "sleep" => Len(sleeps) = idx /\ current_text = writes[idx].text
        /\ pc = "put" => Len(sleeps) = idx - 1
        /\ outcome = "done" => Len(sleeps) = total - 1 /\ committed = total

C10_Witness ==
    /\ ~args.dry_run /\ outcome = "done" /\ total >= 2 /\ Len(sleeps) = total - 1
    /\ sleeps[1].sec > 0

\* an identifier of the form owner/repo: one "/", something on both sides
WellFormedRepo(repo) ==
    \E i \in 2..(Len(repo) - 1) :
        repo[i] = "/" /\ \A j \in 1..Len(repo) : repo[j] = "/" => j = i

\* the configuration errors: no credential, a repository identifier that is
\* not of the form owner/repo, a delay specification that does not parse
ConfigurationError ==
    \/ token = NoStr
    \/ ~WellFormedRepo(args.repo)
    \/ ~build_delay_getter(args.delay).ok

\* C11: a run with a missing credential, a malformed repository identifier or
\* a malformed delay specification issues no fetch and no write, and ends with
\* exit code 2.
C11_ConfigErrorBeforeRemote ==
    (pc \notin {"launch", "start"} /\ ConfigurationError) =>
        /\ fetched = <<>> /\ writes = <<>>
        /\ pc = "exited" => exit_code = 2

\* the buffer to which the line of this iteration was appended: the buffer
\* without that line and its terminator
BufferAtAppend == SubSeq(current_text, 1, Len(current_text) - Len(lines[idx]) - 1)

\* the content the initial fetch gave, empty for an absent file
FetchedText == IF FetchedFound THEN fetched[1].text ELSE <<>>

ExactlyOneNL(t) == EndsWithNL(t) /\ ~EndsWithNL(SubSeq(t, 1, Len(t) - 1))

\* C12 as stated: in every iteration the buffer the line is appended to is
\* empty or ends with exactly one terminator, and the buffer ends with a
\* terminator after the append.
C12_ExactlyOneTerminator ==
    idx >= 1 =>
        /\ BufferAtAppend = <<>> \/ ExactlyOneNL(BufferAtAppend)
        /\ EndsWithNL(current_text)

\* C12 amended: the buffer the line is appended to is empty or ends with at
\* least one terminator: it is the buffer of before, with one terminator added
\* only when it is not empty and lacks one, so the terminators that content
\* already ends with are all kept; after the append the buffer is that, the
\* line and one terminator.
C12_AtLeastOneTerminator ==
    idx >= 1 =>
        LET P == BufferAtAppend
            F == FetchedText
        IN  /\ P = <<>> \/ EndsWithNL(P)
            /\ current_text = P \o lines[idx] \o <<NL>>
            /\ EndsWithNL(current_text)
            /\ idx = 1 => P = (IF F = <<>> \/ EndsWithNL(F) THEN F ELSE F \o <<NL>>)
            /\ (idx > 1 /\ ~args.dry_run) => P = writes[idx - 1].text

C12_Witness ==
    /\ idx = 1 /\ FetchedFound /\ fetched[1].text = <<"z", NL, NL>>
    /\ BufferAtAppend = <<"z", NL, NL>>

IsPrefix(p, t) == Len(p) <= Len(t) /\ SubSeq(t, 1, Len(p)) = p

\* C13: the content of the first write starts with the content fetched, the
\* content of every later write starts with the content of the write before
\* it and is longer; this whether the file existed or not and whatever the
\* answers to the writes were.
C13_AppendOnly ==
    /\ writes # <<>> => IsPrefix(FetchedText, writes[1].text)
    /\ \A k \in 2..Len(writes) :
         /\ IsPrefix(writes[k - 1].text, writes[k].text)
         /\ Len(writes[k - 1].text) < Len(writes[k].text)
    /\ \A k \in 1..Len(remote) : remote[k].text = writes[k].text

C13_Witness ==
    /\ Len(writes) >= 2 /\ FetchedFound /\ fetched[1].text = <<"z", NL, NL>>
    /\ IsPrefix(<<"z", NL, NL>>, writes[2].text)

Min(a, b) == IF a <= b THEN a ELSE b

\* the delays drawn lie in [lo, hi] and the pauses made are the delays drawn
DrawnWithin(lo, hi) ==
    \A j \in 1..Len(sleeps) :
        /\ lo <= sleeps[j].drawn /\ sleeps[j].drawn <= hi
        /\ sleeps[j].sec = sleeps[j].drawn /\ sleeps[j].sec >= 0

\* C14: for a range a-b of two valid duration tokens, in either order, the
\* getter is built, its bounds are lo = min(a, b) and hi = max(a, b) with
\* 0 <= lo <= hi, and every delay it returns lies in [lo, hi]; for a fixed
\* specification every delay returned is the parsed value; no pause is negative.
\* (The getter is built once the credential and the repository have passed.)
C14_DelayBounds ==
    (pc \notin {"launch", "start"} /\ outcome \notin {"no_token", "bad_repo"}) =>
        LET spec == args.delay
            fixed == parse_duration(spec)
        IN  /\ \A i \in 1..Len(spec) :
                 LET a == parse_duration(SubSeq(spec, 1, i - 1))
                     b == parse_duration(SubSeq(spec, i + 1, Len(spec)))
                 IN  (spec[i] = "-" /\ a # Invalid /\ b # Invalid) =>
                        /\ outcome # "bad_delay" /\ delay.ok
                        /\ delay.lo = Min(a, b) /\ delay.hi = Max(a, b)
                        /\ 0 <= delay.lo /\ delay.lo <= delay.hi
                        /\ DrawnWithin(Min(a, b), Max(a, b))
            /\ fixed # Invalid =>
                 /\ outcome # "bad_delay" /\ delay.ok
                 /\ DrawnWithin(fixed, fixed)
            /\ \A j \in 1..Len(sleeps) : sleeps[j].sec >= 0

C14_Witness ==
    /\ args.delay = <<"3", "-", "1", "m">> /\ sleeps # <<>>
    /\ delay.lo = 3000 /\ delay.hi = 60000 /\ sleeps[1].drawn = 60000

====
